---------------------------- MODULE Spec2Model ----------------------------
(***************************************************************************)
(* A model of build_html.js (ratkingtx/spaghetti): the Node build          *)
(* (main and its helpers) and the script the build embeds in the page      *)
(* (generateData, createLimiter, the Refresh handlers).                    *)
(*                                                                         *)
(* Symbols are sequences of one-character strings, so that endsWith,       *)
(* slice and includes are computed as the code computes them.  JS numbers  *)
(* are records: a finite number is an exact fraction n/d in lowest terms,  *)
(* NaN is a value of its own.  Floating rounding is not modelled.          *)
(***************************************************************************)
EXTENDS Integers, Sequences, FiniteSets, TLC

VARIABLES
    variant,          \* which script runs: "server" (node build_html.js) or "browser" (the page)
    pc,               \* position of main() / of the page's refresh handler
    INTERVAL,         \* process.env.INTERVAL / CONFIG.INTERVAL
    TOP_N,            \* process.env.TOP_N / CONFIG.TOP_N
    VOLUME_PERIOD,    \* process.env.VOLUME_PERIOD / the value of the #volPeriod select
    market,           \* the exchange's daily candles per symbol (what /klines 1d answers)
    limit,            \* const limit = computeLimit(HOURS, INTERVAL)
    tickers,          \* const tickers = await fetch24hTickers()
    syms,             \* the selected symbols
    i,                \* loop index of main's per-symbol loop
    baseIdx,             \* binanceGet's position in BINANCE_BASES (1-based)
    traces,           \* const traces = []
    endVals,          \* const endVals = []
    csvRows,          \* const csvRows = new Map()
    failed,           \* symbols whose kline fetch threw (main: console.warn was called)
    selected,         \* const selected = endVals.slice(0, topK).concat(endVals.slice(-botK))
    csvFile,          \* the CSV artifact, NoFile until written
    htmlFile,         \* the HTML artifact, NoFile until written
    exitCode,         \* process exit code, -1 while running
    reqs,             \* requests issued so far: [ticker, kline, daily]
    page,             \* what the page shows: [traces, annotations, returns]
    btnDisabled,      \* refreshBtn.disabled
    handler,          \* the refresh in flight: "auto", "click" or "none"
    alerted,          \* alert('Refresh failed: ...') was raised by the last refresh
    rendered,         \* number of refreshes that reached Plotly.react
    symbols,          \* generateData's sorted [sym, qv] rows, until the ranking is through
    results,          \* the rolling ranking's `results` (null or [sym, sum]), in its block
    pctIn, pctOut,    \* argument and result of one toPercentSeries call
    queue, running, tasks,  \* createLimiter's closure state and the tasks given to it
    answers,          \* what each concurrent fetch of one refresh will answer, by symbol
    klResults,        \* the slots of Promise.all(klTasks), filled as the tasks settle
    attempt,          \* fetchJson's loop variable i
    fetchLog,         \* the fetch and sleep calls of one browser binanceGet, in order
    fetchResult,      \* how that binanceGet call ended: NoResult, data or the thrown error
    TZ,               \* process.env.TZ_NAME || "America/Chicago"
    hours,            \* computeLimit's first argument: HOURS / CONFIG.HOURS
    inFlight,         \* number of generateData runs the page has started and not ended
    promises,         \* the promise the limiter returned for each task, by task
    cache,            \* localStorage, by key
    now,              \* Date.now(), in ms since the page was loaded
    cacheOut,         \* the latest cached fetch: its request and what it returned
    lastKline         \* main's latest fetchKlines call: its symbol and the answer to each request

vars == <<variant, pc, INTERVAL, TOP_N, VOLUME_PERIOD, market, limit, tickers, syms, i,
          baseIdx, traces, endVals, csvRows, failed, selected, csvFile, htmlFile, exitCode,
          reqs, page, btnDisabled, handler, alerted, rendered, symbols, results, pctIn,
          pctOut, queue, running, tasks, answers, klResults, attempt, fetchLog,
          fetchResult, TZ, hours, inFlight, promises, cache, now, cacheOut, lastKline>>
cfgVars == <<variant, INTERVAL, TOP_N, market, TZ, hours>>
pageVars == <<page, btnDisabled, handler, alerted, rendered, symbols, results>>
pctVars == <<pctIn, pctOut>>
limVars == <<queue, running, tasks>>
fetchVars == <<attempt, fetchLog, fetchResult>>
orderVars == <<answers, klResults>>
cacheVars == <<cache, now, cacheOut>>
extraVars == <<orderVars, fetchVars, lastKline, inFlight, promises, cacheVars>>
runVars == <<limit, tickers, syms, i, traces, endVals, csvRows, failed, selected, csvFile,
             htmlFile, exitCode, reqs>>

----------------------------------------------------------------------------
(* Bounds of the model *)

MaxTickers == 3
MaxCandles == 2
MaxPctLen == 3
MaxSeries == 12
MaxHours == 300
MaxInFlight == 2
MaxTicks == 4
NumTasks == 10

----------------------------------------------------------------------------
(* Sequences *)

Min(a, b) == IF a < b THEN a ELSE b
Max(a, b) == IF a > b THEN a ELSE b
Abs(a) == IF a < 0 THEN -a ELSE a

Range(s) == {s[j] : j \in 1..Len(s)}

\* Array.prototype.slice(start, end) with JS's treatment of negative and
\* out-of-range indices; the result is a 1-based sequence.
RelIndex(k, len) == IF k < 0 THEN Max(len + k, 0) ELSE Min(k, len)
slice(s, start, end) ==
    LET from == RelIndex(start, Len(s))
        to   == RelIndex(end, Len(s))
    IN  IF to <= from THEN <<>> ELSE SubSeq(s, from + 1, to)
sliceFrom(s, start) == slice(s, start, Len(s))

\* All sequences over S of length at most n.
SeqsUpTo(S, n) == UNION {[1..k -> S] : k \in 0..n}

\* The permutations of 1..n, as sequences.
Perms(n) == {p \in [1..n -> 1..n] : \A a, b \in 1..n : a # b => p[a] # p[b]}

----------------------------------------------------------------------------
(* JS numbers *)

RECURSIVE Gcd(_, _)
Gcd(a, b) == IF b = 0 THEN a ELSE Gcd(b, a % b)

NaN == [k |-> "nan", n |-> 0, d |-> 1]
Rat(n, d) ==
    LET g == Gcd(Abs(n), Abs(d))
        s == IF d < 0 THEN -1 ELSE 1
    IN  [k |-> "num", n |-> s * (n \div g), d |-> s * (d \div g)]
Num(n) == [k |-> "num", n |-> n, d |-> 1]

isFinite(x) == x.k = "num"
\* a - b, a / b (b non-zero) and a * b of JS numbers
Sub(a, b) == IF isFinite(a) /\ isFinite(b) THEN Rat(a.n * b.d - b.n * a.d, a.d * b.d) ELSE NaN
Add(a, b) == IF isFinite(a) /\ isFinite(b) THEN Rat(a.n * b.d + b.n * a.d, a.d * b.d) ELSE NaN
Quot(a, b) == IF isFinite(a) /\ isFinite(b) THEN Rat(a.n * b.d, a.d * b.n) ELSE NaN
Mul(a, b) == IF isFinite(a) /\ isFinite(b) THEN Rat(a.n * b.n, a.d * b.d) ELSE NaN
Sign(x) == IF x.n > 0 THEN 1 ELSE IF x.n < 0 THEN -1 ELSE 0

\* parseFloat of the texts the exchange payloads of this model carry: a decimal
\* numeral parses to its value, anything else to NaN.
parseFloat(text) ==
    CASE text = "0" -> Num(0)
      [] text = "1" -> Num(1)
      [] text = "2" -> Num(2)
      [] OTHER -> NaN
\* x || "0" for a text field: the empty (or missing) text is falsy.
OrZero(text) == IF text = "" THEN "0" ELSE text

----------------------------------------------------------------------------
(* Array.prototype.sort with the comparator (a, b) => b.key - a.key *)

\* What SortCompare makes of the comparator's result: a NaN result counts as +0.
Compare(a, b) == LET v == Sub(b, a) IN IF isFinite(v) THEN Sign(v) ELSE 0

\* ECMAScript's "consistent comparator" for the keys at hand.
ConsistentComparator(keys) ==
    \A a, b, c \in Range(keys) :
        /\ Compare(a, b) = -Compare(b, a)
        /\ (Compare(a, b) = 0 /\ Compare(b, c) = 0) => Compare(a, c) = 0
        /\ (Compare(a, b) < 0 /\ Compare(b, c) < 0) => Compare(a, c) < 0
        /\ (Compare(a, b) < 0 /\ Compare(b, c) = 0) => Compare(a, c) < 0
        /\ (Compare(a, b) = 0 /\ Compare(b, c) < 0) => Compare(a, c) < 0

\* The stable sorted order, as the sequence of indices into keys: index n is
\* inserted behind every earlier index whose key does not compare greater.
RECURSIVE StableOrderOf(_, _)
StableOrderOf(keys, n) ==
    IF n = 0 THEN <<>>
    ELSE LET prev == StableOrderOf(keys, n - 1)
             p == Cardinality({j \in 1..Len(prev) : Compare(keys[prev[j]], keys[n]) <= 0})
         IN  SubSeq(prev, 1, p) \o <<n>> \o SubSeq(prev, p + 1, Len(prev))
StableOrder(keys) == StableOrderOf(keys, Len(keys))

\* The orders (sequences of indices into keys) sort may leave the array in: the
\* stable sorted order for a consistent comparator; with an inconsistent one
\* (NaN among unequal keys) the order is implementation-defined.
SortOrders(keys) ==
    IF ConsistentComparator(keys) THEN {StableOrder(keys)} ELSE Perms(Len(keys))

Permute(s, order) == [r \in 1..Len(s) |-> s[order[r]]]
----------------------------------------------------------------------------
(* Symbol filter: looksLikeUsdtSpot, baseFromPair, isExcluded *)

USDT == <<"U", "S", "D", "T">>
STABLES ==
    { USDT, <<"U", "S", "D", "C">>, <<"B", "U", "S", "D">>, <<"D", "A", "I">>,
      <<"T", "U", "S", "D">>, <<"F", "D", "U", "S", "D">>, <<"E", "U", "R", "S">>,
      <<"U", "S", "D", "P">>, <<"U", "S", "D", "D">>, <<"U", "S", "T">>,
      <<"U", "S", "T", "C">>, <<"P", "Y", "U", "S", "D">> }
EXCL_TOKENS ==
    << <<"U", "P">>, <<"D", "O", "W", "N">>, <<"3", "L">>, <<"3", "S">>,
       <<"5", "L">>, <<"5", "S">>, <<"B", "U", "L", "L">>, <<"B", "E", "A", "R">> >>

endsWith(s, suffix) ==
    /\ Len(s) >= Len(suffix)
    /\ SubSeq(s, Len(s) - Len(suffix) + 1, Len(s)) = suffix
includes(s, tok) ==
    \E a \in 1..(Len(s) - Len(tok) + 1) : SubSeq(s, a, a + Len(tok) - 1) = tok

looksLikeUsdtSpot(sym) == endsWith(sym, USDT)
baseFromPair(sym) == IF endsWith(sym, USDT) THEN slice(sym, 0, -4) ELSE sym

isExcluded_StablesOnly(sym) == baseFromPair(sym) \in STABLES
isExcluded(sym) ==
    IF baseFromPair(sym) \in STABLES
    THEN TRUE
    ELSE \E a \in 1..Len(EXCL_TOKENS) : includes(sym, EXCL_TOKENS[a])

\* The loop both rankers share: the [sym, qv] rows of the tickers that pass the
\* filter, in ticker order.
RECURSIVE candidateRows(_)
candidateRows(ts) ==
    IF ts = <<>> THEN <<>>
    ELSE LET t == Head(ts)
             sym == t.symbol
         IN  IF ~looksLikeUsdtSpot(sym) \/ isExcluded(sym)
             THEN candidateRows(Tail(ts))
             ELSE << <<sym, parseFloat(OrZero(t.quoteVolume))>> >> \o candidateRows(Tail(ts))

\* rows.sort((a,b) => b[1]-a[1]): the arrays the sort may leave.
sortedByVolume(rows) ==
    {Permute(rows, o) : o \in SortOrders([r \in 1..Len(rows) |-> rows[r][2]])}

firstColumn(rows) == [r \in 1..Len(rows) |-> rows[r][1]]

\* topByQuoteVolume(tickers, topn): the results it may return.
topByQuoteVolume(ts, topn) ==
    {firstColumn(slice(sorted, 0, topn)) : sorted \in sortedByVolume(candidateRows(ts))}

----------------------------------------------------------------------------
(* computeLimit *)

MAX_KLINES_LIMIT == 1000
MINUTES == [x \in {"1m", "3m", "5m", "15m"} |->
               CASE x = "1m" -> 1 [] x = "3m" -> 3 [] x = "5m" -> 5 [] x = "15m" -> 15]
\* Property names every object literal inherits from Object.prototype: looking
\* one up in MINUTES yields a function or an object, which is truthy.
ObjectPrototypeKeys ==
    {"constructor", "toString", "valueOf", "hasOwnProperty", "__proto__"}

Ceil(n, d) == -((-n) \div d)

\* "throw" for the Error, otherwise the number returned.
computeLimit_Uncapped(h, interval) ==
    [threw |-> FALSE, value |-> Num(Ceil(h * 60, MINUTES[interval]))]
computeLimit(h, interval) ==
    IF interval \in DOMAIN MINUTES
    THEN [threw |-> FALSE, value |-> Num(Min(Ceil(h * 60, MINUTES[interval]), MAX_KLINES_LIMIT))]
    ELSE IF interval \in ObjectPrototypeKeys
         THEN \* mins is an object: hours*60/mins is NaN, and so are ceil and min of it
              [threw |-> FALSE, value |-> NaN]
         ELSE [threw |-> TRUE, value |-> NaN]

----------------------------------------------------------------------------
(* fetchKlines' mapping of the payload, and toPercentSeries *)

\* data.map(r => ({t: new Date(r[0]), c: parseFloat(r[4])})).filter(x => Number.isFinite(x.c))
klineRows(data) ==
    SelectSeq([r \in 1..Len(data) |-> [t |-> data[r].t, c |-> parseFloat(data[r].c)]],
              LAMBDA x : isFinite(x.c))

toPercentSeries_PrevBase(rows) ==
    IF Len(rows) = 0 THEN <<>>
    ELSE IF ~isFinite(rows[1].c) \/ rows[1].c.n = 0 THEN <<>>
    ELSE [r \in 1..Len(rows) |->
            [t |-> rows[r].t,
             y |-> IF r = 1 \/ rows[Max(r - 1, 1)].c.n = 0 THEN Num(0)
                   ELSE Sub(Quot(rows[r].c, rows[Max(r - 1, 1)].c), Num(1))]]
toPercentSeries(rows) ==
    IF Len(rows) = 0 THEN <<>>
    ELSE LET base == rows[1].c
         IN  IF ~isFinite(base) \/ base.n = 0 THEN <<>>
             ELSE [r \in 1..Len(rows) |-> [t |-> rows[r].t, y |-> Sub(Quot(rows[r].c, base), Num(1))]]

\* Number.prototype.toFixed(digits) of a finite number, as the integer
\* round(y * 10^digits); the text is that integer with the point shifted.
Pow10(digits) == IF digits = 6 THEN 1000000 ELSE IF digits = 1 THEN 10 ELSE 1
toFixed(y, digits) ==
    LET num == Abs(y.n) * Pow10(digits)
        q == (2 * num + y.d) \div (2 * y.d)
    IN  [neg |-> y.n < 0, units |-> q, digits |-> digits]

\* symbol.replace(/USDT$/, "")
stripUsdt(sym) == IF endsWith(sym, USDT) THEN slice(sym, 0, -4) ELSE sym

----------------------------------------------------------------------------
(* Extremes: endVals.sort, then the two slices *)

topK == 5
botK == 5

\* endVals.sort((a,b) => b.lastY - a.lastY): the arrays the sort may leave.
sortedByLastY(ev) ==
    {Permute(ev, o) : o \in SortOrders([r \in 1..Len(ev) |-> ev[r].lastY])}

selectExtremes_Top6(ev) ==
    slice(ev, 0, topK + 1) \o sliceFrom(ev, -botK)
\* endVals.slice(0, topK).concat(endVals.slice(-botK)), of the sorted endVals
selectExtremes(ev) ==
    slice(ev, 0, topK) \o sliceFrom(ev, -botK)

annotationsOf(sel) ==
    [r \in 1..Len(sel) |->
        [x |-> sel[r].lastX, y |-> sel[r].lastY,
         label |-> sel[r].label,
         text |-> toFixed(Mul(sel[r].lastY, Num(100)), 1)]]

returnsOf(ev) == [r \in 1..Len(ev) |-> [label |-> ev[r].label, pct |-> ev[r].lastY]]
----------------------------------------------------------------------------
(* The exchange, as far as the model lets it answer *)

BTCUSDT == <<"B", "T", "C">> \o USDT
ETHUSDT == <<"E", "T", "H">> \o USDT
SOLUSDT == <<"S", "O", "L">> \o USDT
USDCUSDT == <<"U", "S", "D", "C">> \o USDT
BTCUPUSDT == <<"B", "T", "C", "U", "P">> \o USDT
ETHBTC == <<"E", "T", "H", "B", "T", "C">>

TradedSymbols == {BTCUSDT, ETHUSDT, SOLUSDT}
OtherSymbols == {USDCUSDT, BTCUPUSDT, ETHBTC}
VolumeTexts == {"1", "2", "abc"}
CloseTexts == {"0", "1", "2", "abc"}

\* What /api/v3/ticker/24hr may answer: lists of up to MaxTickers tickers with
\* distinct symbols.
TickerUniverse ==
    {[symbol |-> s, quoteVolume |-> v] : s \in TradedSymbols, v \in VolumeTexts}
        \cup {[symbol |-> s, quoteVolume |-> "2"] : s \in OtherSymbols}
TickerLists ==
    {l \in SeqsUpTo(TickerUniverse, MaxTickers) :
        \A a, b \in 1..Len(l) : a # b => l[a].symbol # l[b].symbol}

\* What /api/v3/klines may answer for the configured interval: up to MaxCandles
\* candles [openTime, close text], with ascending open times.
\* Instants are minutes since 2025-11-02T00:00Z.  The answer's candles open an hour
\* apart, the first at 06:30Z: every twelfth candle of the 5m series of that night.
FirstOpen == 390
CandleGap == 60
OpenTime(r) == FirstOpen + CandleGap * (r - 1)
KlinePayloads ==
    {[r \in 1..Len(cs) |-> [t |-> OpenTime(r), c |-> cs[r]]] :
        cs \in SeqsUpTo(CloseTexts, MaxCandles)}

\* The daily candles of a symbol, newest first: quote volume `recent` on each of
\* the last 7 days, `older` on each day before.
Markets ==
    { (BTCUSDT :> [recent |-> "1", older |-> "0"]) @@
      (ETHUSDT :> [recent |-> "0", older |-> "1"]) @@
      (SOLUSDT :> [recent |-> "abc", older |-> "2"]),
      (BTCUSDT :> [recent |-> "0", older |-> "2"]) @@
      (ETHUSDT :> [recent |-> "2", older |-> "0"]) @@
      (SOLUSDT :> [recent |-> "1", older |-> "abc"]) }
RecentDays == 7
dailyKlines(mkt, sym, days) ==
    [r \in 1..days |-> IF r <= RecentDays THEN mkt[sym].recent ELSE mkt[sym].older]

\* A response of one HTTP request: it fails (network error, HTTP error status), or
\* it carries JSON that is an array or is not.
Failure == [ok |-> FALSE, isArray |-> FALSE, data |-> <<>>]
NotAnArray == [ok |-> TRUE, isArray |-> FALSE, data |-> <<>>]
Payload(d) == [ok |-> TRUE, isArray |-> TRUE, data |-> d]

TickerResponses == {Failure, NotAnArray} \cup {Payload(l) : l \in TickerLists}
\* The exchange rejects an interval it does not know.
KlineResponses(interval) ==
    IF interval \in DOMAIN MINUTES
    THEN {Failure, NotAnArray} \cup {Payload(d) : d \in KlinePayloads}
    ELSE {Failure}

----------------------------------------------------------------------------
(* Configuration *)

NumBases == 2
HOURS == 24
LABEL_BASE_ONLY == TRUE
Intervals == {"5m", "1h", "constructor"}
TopNValues == {1, 2}
Periods == {"24h", "7d", "30d"}

NoFile == [written |-> FALSE, header |-> <<>>, lines |-> <<>>, traces |-> <<>>,
           annotations |-> <<>>, returns |-> <<>>]
NoReqs == [ticker |-> FALSE, kline |-> {}, daily |-> {}]
EmptyPage == [traces |-> <<>>, annotations |-> <<>>, returns |-> <<>>]
EmptyMap == [k \in {} |-> <<>>]

\* The zones of the model.  America/Chicago leaves daylight time on 2025-11-02 at
\* 07:00Z: the local clock goes from 01:59 (UTC-5) back to 01:00 (UTC-6).
TimeZones == {"America/Chicago", "UTC"}
FallBack == 420
utcOffset(t, tz) == IF tz = "UTC" THEN 0 ELSE IF t < FallBack THEN -300 ELSE -360

\* dayjs(t).tz(tz).format("YYYY-MM-DD HH:mm") + " CT": the local date and wall-clock
\* time.  All keys share year and month, so a key is the number DDHHmm, whose order is
\* the order of the fixed-width texts.
formatLocal(t, tz) ==
    LET local == t + utcOffset(t, tz)
    IN  (2 + (local \div 1440)) * 10000 + ((local % 1440) \div 60) * 100 + (local % 60)

labelOf(symbol) == IF LABEL_BASE_ONLY THEN stripUsdt(symbol) ELSE symbol

----------------------------------------------------------------------------
(* main(): the Node build *)

NoResult == [kind |-> "none"]
IdleFetch == attempt = 0 /\ fetchLog = <<>> /\ fetchResult = NoResult
NoKline == [symbol |-> <<>>, tries |-> <<>>]
NoCall == [source |-> "none"]
IdleCache == cache = <<>> /\ now = 0 /\ cacheOut = NoCall
IdleExtra == answers = <<>> /\ klResults = <<>> /\ IdleFetch /\ lastKline = NoKline
             /\ inFlight = 0 /\ IdleCache /\ promises = <<>>
IdlePure ==
    /\ pctIn = <<>> /\ pctOut = <<>>
    /\ queue = <<>> /\ running = 0 /\ tasks = <<>>
IdleRun ==
    /\ limit = NaN /\ tickers = <<>> /\ syms = <<>> /\ i = 0 /\ baseIdx = 1
    /\ traces = <<>> /\ endVals = <<>> /\ csvRows = EmptyMap /\ failed = {}
    /\ selected = <<>> /\ csvFile = NoFile /\ htmlFile = NoFile /\ exitCode = -1
    /\ reqs = NoReqs
IdlePage ==
    /\ page = EmptyPage /\ btnDisabled = FALSE /\ handler = "none"
    /\ alerted = FALSE /\ rendered = 0 /\ symbols = <<>> /\ results = <<>>

InitServer ==
    /\ variant = "server" /\ pc = "start"
    /\ INTERVAL \in Intervals
    /\ TOP_N \in TopNValues
    /\ VOLUME_PERIOD \in Periods
    /\ TZ \in TimeZones /\ hours = HOURS
    /\ market \in Markets
    /\ IdleRun /\ IdlePage /\ IdlePure /\ IdleExtra

\* main().catch(err => { console.error(err); process.exit(1); })
Exit1_Success == pc' = "exited" /\ exitCode' = 0
Exit1 == pc' = "exited" /\ exitCode' = 1

\* await fs.ensureDir(OUTDIR); const limit = computeLimit(HOURS, INTERVAL);
\* then fetch24hTickers() starts.
ServerStart ==
    /\ variant = "server" /\ pc = "start"
    /\ LET r == computeLimit(HOURS, INTERVAL)
       IN  IF r.threw
           THEN Exit1 /\ UNCHANGED limit
           ELSE pc' = "tickers" /\ limit' = r.value /\ UNCHANGED exitCode
    /\ UNCHANGED <<cfgVars, VOLUME_PERIOD, tickers, syms, i, baseIdx, traces, endVals, csvRows,
                   failed, selected, csvFile, htmlFile, reqs, pageVars, pctVars, limVars, extraVars>>

\* One pass of binanceGet's loop for /api/v3/ticker/24hr.  When it returns, main
\* goes on to topByQuoteVolume.
ServerTickerAttempt ==
    /\ variant = "server" /\ pc = "tickers"
    /\ reqs' = [reqs EXCEPT !.ticker = TRUE]
    /\ \E resp \in TickerResponses :
          IF ~resp.ok
          THEN IF baseIdx < NumBases
               THEN baseIdx' = baseIdx + 1 /\ UNCHANGED <<pc, exitCode, tickers, syms>>
               ELSE Exit1 /\ UNCHANGED <<baseIdx, tickers, syms>>
          ELSE IF ~resp.isArray
               THEN \* for (const t of tickers) throws
                    Exit1 /\ UNCHANGED <<baseIdx, tickers, syms>>
               ELSE /\ tickers' = resp.data
                    /\ syms' \in topByQuoteVolume(resp.data, TOP_N)
                    /\ pc' = "ranked" /\ baseIdx' = 1
                    /\ UNCHANGED exitCode
    /\ UNCHANGED <<cfgVars, VOLUME_PERIOD, limit, i, traces, endVals, csvRows, failed,
                   selected, csvFile, htmlFile, pageVars, pctVars, limVars, extraVars>>

\* const traces = []; const csvHeader = ...; the loop begins.  tickers is not read
\* again.
ServerBeginLoop ==
    /\ variant = "server" /\ pc = "ranked"
    /\ pc' = "klines" /\ i' = 0
    /\ tickers' = <<>>
    /\ UNCHANGED <<cfgVars, VOLUME_PERIOD, limit, syms, baseIdx, traces, endVals, csvRows,
                   failed, selected, csvFile, htmlFile, exitCode, reqs, pageVars, pctVars,
                   limVars, extraVars>>

\* csvRows after the inner loop over pct for the symbol at index idx (0-based).
RECURSIVE fillCsv(_, _, _, _, _)
fillCsv(rows, pct, idx, width, from) ==
    IF from > Len(pct) THEN rows
    ELSE LET tKey == formatLocal(pct[from].t, TZ)
             arr == IF tKey \in DOMAIN rows THEN rows[tKey]
                    ELSE [c \in 1..width |-> [blank |-> TRUE, text |-> toFixed(Num(0), 6)]]
             cell == [blank |-> FALSE, text |-> toFixed(pct[from].y, 6)]
             next == [k \in (DOMAIN rows) \cup {tKey} |->
                         IF k = tKey THEN [arr EXCEPT ![idx + 1] = cell] ELSE rows[k]]
         IN  fillCsv(next, pct, idx, width, from + 1)

\* } catch (e) { console.warn(...) }: the loop goes on with the next symbol.
klineErrorPc_Rethrow == "exited"
klineErrorPc == "klines"

\* binanceGet's catch clause: after any error the loop goes on to the next base, if any.
triesNextBase_Never(resp, base) == FALSE
triesNextBase(resp, base) == ~resp.ok /\ base < NumBases

\* fetchKlines throws into main's catch: binanceGet rethrew the last error, or data.map
\* is not a function.
klineThrows_OnEmpty(resp) == ~resp.ok \/ ~resp.isArray \/ resp.data = <<>>
klineThrows(resp) == ~resp.ok \/ ~resp.isArray

\* One pass of binanceGet's loop inside fetchKlines(symbol, INTERVAL, limit) for
\* the symbol at i, and, when binanceGet is through, the rest of the loop body.
ServerKlineAttempt ==
    /\ variant = "server" /\ pc = "klines" /\ i < Len(syms)
    /\ LET symbol == syms[i + 1]
           label == labelOf(symbol)
       IN  /\ reqs' = [reqs EXCEPT !.kline = @ \cup {symbol}]
           /\ \E resp \in KlineResponses(INTERVAL) :
                /\ lastKline' = [symbol |-> symbol,
                                  tries |-> IF baseIdx = 1 THEN <<resp>>
                                            ELSE Append(lastKline.tries, resp)]
                /\ IF triesNextBase(resp, baseIdx)
                   THEN /\ baseIdx' = baseIdx + 1
                        /\ UNCHANGED <<i, traces, endVals, csvRows, failed, pc, exitCode>>
                   ELSE IF klineThrows(resp)
                   THEN /\ failed' = failed \cup {symbol}
                        /\ i' = i + 1 /\ baseIdx' = 1
                        /\ pc' = klineErrorPc
                        /\ exitCode' = IF klineErrorPc = "exited" THEN 1 ELSE exitCode
                        /\ UNCHANGED <<traces, endVals, csvRows>>
                   ELSE LET pct == toPercentSeries(klineRows(resp.data))
                        IN  /\ i' = i + 1 /\ baseIdx' = 1
                            /\ UNCHANGED <<failed, pc, exitCode>>
                            /\ IF Len(pct) = 0
                               THEN UNCHANGED <<traces, endVals, csvRows>>
                               ELSE /\ csvRows' = fillCsv(csvRows, pct, i, Len(syms), 1)
                                    /\ traces' = Append(traces,
                                           [name |-> label,
                                            x |-> [r \in 1..Len(pct) |-> pct[r].t],
                                            y |-> [r \in 1..Len(pct) |-> pct[r].y]])
                                    /\ endVals' = Append(endVals,
                                           [i |-> i, label |-> label,
                                            lastX |-> pct[Len(pct)].t,
                                            lastY |-> pct[Len(pct)].y])
    /\ UNCHANGED <<cfgVars, VOLUME_PERIOD, limit, tickers, syms, selected, csvFile, htmlFile,
                   pageVars, pctVars, limVars, orderVars, fetchVars, inFlight,
                   promises, cacheVars>>

\* Array.from(csvRows.keys()).sort(): the keys in ascending order.
RECURSIVE sortedKeys(_)
sortedKeys(S) ==
    IF S = {} THEN <<>>
    ELSE LET m == CHOOSE x \in S : \A y \in S : x <= y
         IN  <<m>> \o sortedKeys(S \ {m})

\* const csvHeader = ["time", ...syms]
TimeColumn == <<"t", "i", "m", "e">>

\* After the loop: the extremes, the annotations and the CSV file.
ServerWriteCsv ==
    /\ variant = "server" /\ pc = "klines" /\ i = Len(syms)
    /\ \E sorted \in sortedByLastY(endVals) :
          /\ endVals' = sorted
          /\ selected' = selectExtremes(sorted)
    /\ LET times == sortedKeys(DOMAIN csvRows)
       IN  csvFile' = [NoFile EXCEPT
                          !.written = TRUE,
                          !.header = <<TimeColumn>> \o syms,
                          !.lines = [r \in 1..Len(times) |->
                                        [time |-> times[r], cells |-> csvRows[times[r]]]]]
    /\ pc' = "csv"
    /\ UNCHANGED <<cfgVars, VOLUME_PERIOD, limit, tickers, syms, i, baseIdx, traces, csvRows, failed,
                   htmlFile, exitCode, reqs, pageVars, pctVars, limVars, extraVars>>

\* fs.copy of the Plotly bundle, renderHTML and the HTML file.
ServerWriteHtml ==
    /\ variant = "server" /\ pc = "csv"
    /\ htmlFile' = [NoFile EXCEPT
                       !.written = TRUE,
                       !.traces = traces,
                       !.annotations = annotationsOf(selected),
                       !.returns = returnsOf(endVals)]
    /\ pc' = "done" /\ exitCode' = 0
    /\ UNCHANGED <<cfgVars, VOLUME_PERIOD, limit, tickers, syms, i, baseIdx, traces, endVals,
                   csvRows, failed, selected, csvFile, reqs, pageVars, pctVars, limVars, extraVars>>

ServerNext ==
    \/ ServerStart
    \/ ServerTickerAttempt
    \/ ServerBeginLoop
    \/ ServerKlineAttempt
    \/ ServerWriteCsv
    \/ ServerWriteHtml

----------------------------------------------------------------------------
(* The page: autoRefreshOnLoad, the Refresh button, generateData *)

\* The browser's computeLimit has no check of mins: an unknown interval gives NaN.
computeLimitBrowser(h, interval) ==
    IF interval \in DOMAIN MINUTES
    THEN Num(Min(Ceil(h * 60, MINUTES[interval]), MAX_KLINES_LIMIT))
    ELSE NaN

\* The page a build has written: here, a chart of one series.
SampleEndVals ==
    << [i |-> 0, label |-> stripUsdt(BTCUSDT), lastX |-> 2, lastY |-> Num(1)] >>
SamplePage ==
    [traces |-> << [name |-> stripUsdt(BTCUSDT), x |-> <<1, 2>>, y |-> <<Num(0), Num(1)>>] >>,
     annotations |-> annotationsOf(selectExtremes(SampleEndVals)),
     returns |-> returnsOf(SampleEndVals)]
InitialPages == {SamplePage}

InitBrowser ==
    /\ variant = "browser" /\ pc = "load"
    /\ INTERVAL \in {x \in Intervals : ~computeLimit(HOURS, x).threw}
    /\ TOP_N \in TopNValues
    /\ VOLUME_PERIOD = "24h"
    /\ TZ = "America/Chicago" /\ hours = HOURS
    /\ market \in Markets
    /\ IdleRun /\ IdlePure /\ IdleExtra
    /\ page \in InitialPages /\ btnDisabled = FALSE /\ handler = "none"
    /\ alerted = FALSE /\ rendered = 0 /\ symbols = <<>> /\ results = <<>> /\ results = <<>>

\* The start of generateData, common to both handlers, up to its first await.
StartGenerate ==
    /\ limit' = computeLimitBrowser(HOURS, INTERVAL)
    /\ pc' = "b_tickers"
    /\ reqs' = NoReqs /\ failed' = {}
    /\ tickers' = <<>> /\ syms' = <<>> /\ symbols' = <<>> /\ results' = <<>>
    /\ inFlight' = inFlight + 1
    /\ UNCHANGED <<cfgVars, VOLUME_PERIOD, i, baseIdx, traces, endVals, csvRows, selected,
                   csvFile, htmlFile, exitCode, page, rendered, pctVars, limVars, orderVars,
                   fetchVars, lastKline,
                   promises, cacheVars>>

\* (async function autoRefreshOnLoad(){ btn?.setAttribute('disabled', 'disabled'); ...
BrowserAutoRefresh ==
    /\ variant = "browser" /\ pc = "load"
    /\ btnDisabled' = TRUE /\ handler' = "auto" /\ UNCHANGED alerted
    /\ StartGenerate

\* btn.addEventListener('click', ...): a disabled button gets no click.  The
\* model follows the page up to its first successful render.
disabledByClick_Not == FALSE
disabledByClick == TRUE
BrowserClick ==
    /\ variant = "browser" /\ pc # "load" /\ ~btnDisabled /\ rendered = 0
    /\ inFlight < MaxInFlight
    /\ btnDisabled' = disabledByClick /\ handler' = "click" /\ alerted' = FALSE
    /\ StartGenerate

\* The user picks another ranking window; generateData reads the select after
\* the tickers have arrived.
BrowserSelectPeriod ==
    /\ variant = "browser" /\ pc \in {"load", "idle", "b_tickers"}
    /\ VOLUME_PERIOD' \in Periods \ {VOLUME_PERIOD}
    /\ UNCHANGED <<cfgVars, pc, limit, tickers, syms, i, baseIdx, traces, endVals, csvRows,
                   failed, selected, csvFile, htmlFile, exitCode, reqs, pageVars, pctVars,
                   limVars, extraVars>>

\* generateData threw: the handler's catch and finally.
RefreshFailed ==
    /\ alerted' = (handler = "click")
    /\ btnDisabled' = FALSE /\ handler' = "none"
    /\ pc' = "idle"
    /\ inFlight' = inFlight - 1
    /\ UNCHANGED <<page, rendered>>

\* await binanceGet('/api/v3/ticker/24hr') returns or throws; then the filter,
\* the sort and the direct ranking.
BrowserTickers ==
    /\ variant = "browser" /\ pc = "b_tickers"
    /\ reqs' = [reqs EXCEPT !.ticker = TRUE]
    /\ \E resp \in TickerResponses :
          IF ~resp.ok \/ ~resp.isArray
          THEN RefreshFailed /\ UNCHANGED <<tickers, syms, symbols>>
          ELSE /\ tickers' = resp.data
               /\ \E sorted \in sortedByVolume(candidateRows(resp.data)) :
                     /\ symbols' = sorted
                     /\ syms' = firstColumn(slice(sorted, 0, TOP_N))
               /\ pc' = IF VOLUME_PERIOD # "24h" THEN "b_rolling" ELSE "b_ranked"
               /\ UNCHANGED <<page, btnDisabled, handler, alerted, rendered, inFlight>>
    /\ UNCHANGED results
    /\ UNCHANGED <<cfgVars, VOLUME_PERIOD, limit, i, baseIdx, traces, endVals, csvRows,
                   failed, selected, csvFile, htmlFile, exitCode, pctVars, limVars, orderVars,
                   fetchVars, lastKline,
                   promises, cacheVars>>

\* sumDailyQuoteVolume's loop over the daily candles.
RECURSIVE sumQuoteVolume(_)
sumQuoteVolume(data) ==
    IF data = <<>> THEN Num(0)
    ELSE LET qv == parseFloat(OrZero(Head(data)))
             rest == sumQuoteVolume(Tail(data))
         IN  IF isFinite(qv) THEN Add(qv, rest) ELSE rest
sumDailyQuoteVolume(mkt, sym, days) == sumQuoteVolume(dailyKlines(mkt, sym, days))

ROLLING_SUBSET == 200
daysOf(period) == IF period = "7d" THEN 7 ELSE 30

\* One task of limitRun: [sym, sum], or null when sumDailyQuoteVolume threw.
NullScore == [null |-> TRUE, sym |-> <<>>, sum |-> NaN]
rollingResults(mkt, subset, lost, days) ==
    [r \in 1..Len(subset) |->
        IF subset[r][1] \in lost THEN NullScore
        ELSE [null |-> FALSE, sym |-> subset[r][1],
              sum |-> sumDailyQuoteVolume(mkt, subset[r][1], days)]]

\* results.filter(Boolean), scored.sort((a,b) => b[1]-a[1]), scored.slice(0, topn)
rollingRank(res, topn) ==
    LET scored == SelectSeq(res, LAMBDA x : ~x.null)
    IN  {[r \in 1..Len(slice(scored, 0, topn)) |-> Permute(scored, o)[r].sym] :
            o \in SortOrders([r \in 1..Len(scored) |-> scored[r].sum])}

\* if (period !== '24h') { ... }: every task of limitRun has settled.
BrowserRolling ==
    /\ variant = "browser" /\ pc = "b_rolling"
    /\ LET subset == slice(symbols, 0, Max(ROLLING_SUBSET, TOP_N))
           asked == Range(firstColumn(subset))
       IN  \E lost \in SUBSET asked :
              /\ reqs' = [reqs EXCEPT !.daily = asked]
              /\ results' = rollingResults(market, subset, lost, daysOf(VOLUME_PERIOD))
              /\ syms' \in rollingRank(rollingResults(market, subset, lost, daysOf(VOLUME_PERIOD)), TOP_N)
    /\ pc' = "b_ranked"
    /\ UNCHANGED <<cfgVars, VOLUME_PERIOD, limit, tickers, i, baseIdx, traces, endVals,
                   csvRows, failed, selected, csvFile, htmlFile, exitCode, page, btnDisabled,
                   handler, alerted, rendered, symbols, pctVars, limVars, extraVars>>

\* const traces = []; ... const klTasks = syms.map(symbol => limitRun2(...)): the
\* ranking's locals are not read again.
BrowserStartKlines ==
    /\ variant = "browser" /\ pc = "b_ranked"
    /\ pc' = "b_klines"
    /\ reqs' = [reqs EXCEPT !.kline = Range(syms), !.daily = {}]
    /\ tickers' = <<>> /\ symbols' = <<>> /\ results' = <<>>
    /\ UNCHANGED <<cfgVars, VOLUME_PERIOD, limit, syms, i, baseIdx, traces, endVals,
                   csvRows, failed, selected, csvFile, htmlFile, exitCode, page, btnDisabled,
                   handler, alerted, rendered, pctVars, limVars, extraVars>>

\* One klTasks task: null, or {symbol, label, xTimes, y}.
NullResult == [null |-> TRUE, symbol |-> <<>>, label |-> <<>>, xTimes |-> <<>>, y |-> <<>>]
klTask(symbol, resp) ==
    IF ~resp.ok \/ ~resp.isArray THEN NullResult
    ELSE LET pct == toPercentSeries(klineRows(resp.data))
         IN  IF Len(pct) = 0 THEN NullResult
             ELSE [null |-> FALSE, symbol |-> symbol, label |-> labelOf(symbol),
                   xTimes |-> [r \in 1..Len(pct) |-> pct[r].t],
                   y |-> [r \in 1..Len(pct) |-> pct[r].y]]

\* for (const res of klResults) { if (!res) continue; traces.push; endVals.push }
tracesOf(klRes) ==
    LET kept == SelectSeq(klRes, LAMBDA res : ~res.null)
    IN  [r \in 1..Len(kept) |-> [name |-> kept[r].label, x |-> kept[r].xTimes, y |-> kept[r].y]]
endValsOf(klRes) ==
    LET kept == SelectSeq(klRes, LAMBDA res : ~res.null)
    IN  [r \in 1..Len(kept) |->
            [i |-> r - 1, label |-> kept[r].label,
             lastX |-> kept[r].xTimes[Len(kept[r].xTimes)],
             lastY |-> kept[r].y[Len(kept[r].y)]]]

\* Every task of limitRun2 has settled: the rest of generateData, and the
\* handler's Plotly.react and renderTable.
BrowserKlines ==
    /\ variant = "browser" /\ pc = "b_klines"
    /\ \E resps \in [1..Len(syms) -> KlineResponses(INTERVAL)] :
          LET klRes == [r \in 1..Len(syms) |-> klTask(syms[r], resps[r])]
          IN  /\ failed' = {syms[r] : r \in {q \in 1..Len(syms) : ~resps[q].ok \/ ~resps[q].isArray}}
              /\ traces' = tracesOf(klRes)
              /\ \E sorted \in sortedByLastY(endValsOf(klRes)) :
                    /\ endVals' = sorted
                    /\ selected' = selectExtremes(sorted)
                    /\ page' = [traces |-> tracesOf(klRes),
                                annotations |-> annotationsOf(selectExtremes(sorted)),
                                returns |-> returnsOf(sorted)]
    /\ rendered' = rendered + 1
    /\ btnDisabled' = FALSE /\ handler' = "none" /\ pc' = "idle"
    /\ inFlight' = inFlight - 1
    /\ UNCHANGED <<cfgVars, VOLUME_PERIOD, limit, tickers, syms, i, baseIdx, csvRows, csvFile,
                   htmlFile, exitCode, reqs, alerted, symbols, results, pctVars, limVars,
                   orderVars, fetchVars, lastKline,
                   promises, cacheVars>>

BrowserNext ==
    \/ BrowserAutoRefresh
    \/ BrowserClick
    \/ BrowserSelectPeriod
    \/ BrowserTickers
    \/ BrowserRolling
    \/ BrowserStartKlines
    \/ BrowserKlines

Init == InitServer \/ InitBrowser
Next == ServerNext \/ BrowserNext
Spec == Init /\ [][Next]_vars

----------------------------------------------------------------------------
(* toPercentSeries on its own *)

IdleCfg ==
    /\ INTERVAL = "5m" /\ TOP_N = 1 /\ VOLUME_PERIOD = "24h" /\ TZ = "America/Chicago"
    /\ hours = HOURS
    /\ market = CHOOSE m \in Markets : TRUE

PctCloses == {NaN, Num(0), Num(1), Num(2), Num(90), Num(100), Num(110)}
\* Candles five minutes apart.
PctInputs ==
    {[r \in 1..Len(cs) |-> [t |-> 5 * r, c |-> cs[r]]] : cs \in SeqsUpTo(PctCloses, MaxPctLen)}

InitPct ==
    /\ variant = "pct" /\ pc = "call"
    /\ IdleCfg /\ IdleRun /\ IdlePage /\ IdleExtra
    /\ pctIn \in PctInputs /\ pctOut = <<>>
    /\ queue = <<>> /\ running = 0 /\ tasks = <<>>

ApplyPct ==
    /\ variant = "pct" /\ pc = "call"
    /\ pctOut' = toPercentSeries(pctIn)
    /\ pc' = "done"
    /\ UNCHANGED <<cfgVars, VOLUME_PERIOD, limit, tickers, syms, i, baseIdx, traces, endVals,
                   csvRows, failed, selected, csvFile, htmlFile, exitCode, reqs, pageVars,
                   pctIn, limVars, extraVars>>

SpecPct == InitPct /\ [][ApplyPct]_vars

----------------------------------------------------------------------------
(* The extremes selection on its own: endVals as the loop may have left it *)

Letters == <<"A", "B", "C", "D", "E", "F", "G", "H", "I", "J", "K", "L", "M", "N", "O", "P">>
LastYValues == {Rat(-1, 2), Num(1)}
EndValsInputs ==
    {[r \in 1..Len(ys) |-> [i |-> r - 1, label |-> <<Letters[r]>>, lastX |-> 2, lastY |-> ys[r]]] :
        ys \in SeqsUpTo(LastYValues, MaxSeries)}

InitExtremes ==
    /\ variant = "extremes" /\ pc = "sort"
    /\ IdleCfg /\ IdlePage /\ IdlePure /\ IdleExtra
    /\ limit = NaN /\ tickers = <<>> /\ syms = <<>> /\ i = 0 /\ baseIdx = 1
    /\ traces = <<>> /\ csvRows = EmptyMap /\ failed = {}
    /\ selected = <<>> /\ csvFile = NoFile /\ htmlFile = NoFile /\ exitCode = -1
    /\ reqs = NoReqs
    /\ endVals \in EndValsInputs

ApplyExtremes ==
    /\ variant = "extremes" /\ pc = "sort"
    /\ \E sorted \in sortedByLastY(endVals) :
          /\ endVals' = sorted
          /\ selected' = selectExtremes(sorted)
    /\ pc' = "done"
    /\ UNCHANGED <<cfgVars, VOLUME_PERIOD, limit, tickers, syms, i, baseIdx, traces, csvRows,
                   failed, csvFile, htmlFile, exitCode, reqs, pageVars, pctVars, limVars, extraVars>>

SpecExtremes == InitExtremes /\ [][ApplyExtremes]_vars

----------------------------------------------------------------------------
(* createLimiter(8) and the tasks generateData gives it *)

LIMITER_MAX == 8

\* const run = () => { ... }: starts the head of the queue unless max are running.
limiterRun_NoCap(st) ==
    IF st.queue = <<>> THEN st
    ELSE [running |-> st.running + 1, queue |-> Tail(st.queue),
          tasks |-> [st.tasks EXCEPT ![Head(st.queue)] = "running"]]
limiterRun(st) ==
    IF st.running >= LIMITER_MAX THEN st
    ELSE IF st.queue = <<>> THEN st
    ELSE [running |-> st.running + 1, queue |-> Tail(st.queue),
          tasks |-> [st.tasks EXCEPT ![Head(st.queue)] = "running"]]

\* The promise of limitRun(fn) before next.resolve or next.reject was called, and the
\* settled one: how it settled and whose fn's result or reason it carries.
PendingPromise == [kind |-> "pending", of |-> 0]
\* .finally(() => { running--; run(); }): the slot is given back however fn() settled.
slotsAfter_KeptOnReject(n, outcome) == IF outcome = "rejected" THEN n ELSE n - 1
slotsAfter(n, outcome) == n - 1

\* (fn) => new Promise((resolve, reject) => { queue.push({fn, resolve, reject}); run(); })
limitRunCall(st, t) ==
    limiterRun([st EXCEPT !.queue = Append(@, t), !.tasks[t] = "queued"])

\* subset.map(pair => limitRun(...)) / syms.map(symbol => limitRun2(...))
RECURSIVE submitAll(_, _, _)
submitAll(st, t, n) ==
    IF t > n THEN st ELSE submitAll(limitRunCall(st, t), t + 1, n)

InitLimiter ==
    /\ variant = "limiter" /\ pc = "map"
    /\ IdleCfg /\ IdleRun /\ IdlePage
    /\ answers = <<>> /\ klResults = <<>> /\ IdleFetch /\ lastKline = NoKline
    /\ inFlight = 0 /\ IdleCache
    /\ pctIn = <<>> /\ pctOut = <<>>
    /\ queue = <<>> /\ running = 0
    /\ tasks = [t \in 1..NumTasks |-> "new"]
    /\ promises = [t \in 1..NumTasks |-> PendingPromise]

\* The map call: every task is handed to the limiter in one synchronous run.
LimiterSubmit ==
    /\ variant = "limiter" /\ pc = "map"
    /\ LET st == submitAll([running |-> running, queue |-> queue, tasks |-> tasks], 1, NumTasks)
       IN  running' = st.running /\ queue' = st.queue /\ tasks' = st.tasks
    /\ pc' = "await"
    /\ UNCHANGED <<cfgVars, VOLUME_PERIOD, limit, tickers, syms, i, baseIdx, traces, endVals,
                   csvRows, failed, selected, csvFile, htmlFile, exitCode, reqs, pageVars,
                   pctVars, extraVars>>

\* next.fn() settles: .then(next.resolve, next.reject).finally(() => { running--; run(); })
LimiterSettleTask(t) ==
    /\ variant = "limiter" /\ pc = "await"
    /\ t \in DOMAIN tasks
    /\ \E outcome \in {"resolved", "rejected"} :
          /\ tasks[t] = "running"
          /\ promises' = [promises EXCEPT ![t] = [kind |-> outcome, of |-> t]]
          /\ LET st == limiterRun([running |-> slotsAfter(running, outcome), queue |-> queue,
                                   tasks |-> [tasks EXCEPT ![t] = outcome]])
             IN  running' = st.running /\ queue' = st.queue /\ tasks' = st.tasks
    /\ UNCHANGED <<cfgVars, VOLUME_PERIOD, pc, limit, tickers, syms, i, baseIdx, traces,
                   endVals, csvRows, failed, selected, csvFile, htmlFile, exitCode, reqs,
                   pageVars, pctVars, orderVars, fetchVars, lastKline, inFlight, cacheVars>>
LimiterSettle == \E t \in 1..NumTasks : LimiterSettleTask(t)

NextLimiter == LimiterSubmit \/ LimiterSettle
SpecLimiter == InitLimiter /\ [][NextLimiter]_vars
\* Every task the limiter has started settles in the end, and the synchronous map call
\* runs to its end.
LimiterFairness ==
    /\ WF_vars(LimiterSubmit)
    /\ \A t \in 1..NumTasks : WF_vars(LimiterSettleTask(t))
SpecLimiterFair == InitLimiter /\ [][NextLimiter]_vars /\ LimiterFairness

----------------------------------------------------------------------------
(* generateData's two Promise.all stages, task by task: the fetches' answers *)
(* are fixed at the start, the order in which the tasks settle is free       *)

\* The sorted [sym, qv] rows generateData starts from.
OrderSymbols == << <<BTCUSDT, Num(2)>>, <<ETHUSDT, Num(1)>>, <<SOLUSDT, Num(1)>> >>
OrderTopN == {Len(OrderSymbols) - 1, Len(OrderSymbols)}
OrderKlineAnswers ==
    {Failure} \cup
    {Payload(d) : d \in {x \in KlinePayloads :
                            /\ Len(x) \in {0, 2}
                            /\ \A r \in DOMAIN x : x[r].c \in {"1", "2"}
                            /\ x # <<>> => ~(x[1].c = "2" /\ x[2].c = "2")}}

\* A slot of Promise.all's result array whose promise has not settled.
PendingScore == [null |-> TRUE, sym |-> <<"?">>, sum |-> NaN]
PendingResult == [null |-> TRUE, symbol |-> <<"?">>, label |-> <<>>, xTimes |-> <<>>, y |-> <<>>]

\* Promise.all: the value of the k-th promise goes to slot k, whenever it settles.
settleSlot_Push(slots, k, value, pending) ==
    LET free == CHOOSE a \in DOMAIN slots :
                    slots[a] = pending /\ \A b \in 1..(a - 1) : slots[b] # pending
    IN  [slots EXCEPT ![free] = value]
settleSlot(slots, k, value, pending) == [slots EXCEPT ![k] = value]

InitOrder ==
    /\ variant = "order" /\ pc = "o_start"
    /\ INTERVAL = "5m" /\ TOP_N \in OrderTopN /\ TZ = "America/Chicago"
    /\ hours = HOURS
    /\ VOLUME_PERIOD \in Periods
    /\ market \in IF VOLUME_PERIOD = "24h" THEN {CHOOSE m \in Markets : TRUE} ELSE Markets
    /\ IdleRun /\ IdlePage /\ IdlePure /\ IdleFetch /\ lastKline = NoKline
    /\ inFlight = 0 /\ IdleCache /\ promises = <<>>
    /\ klResults = <<>>
    /\ \E daily \in [Range(firstColumn(OrderSymbols)) -> BOOLEAN],
          kline \in [Range(firstColumn(OrderSymbols)) -> OrderKlineAnswers] :
          /\ VOLUME_PERIOD = "24h" => \A x \in DOMAIN daily : daily[x]
          /\ answers = [daily |-> daily, kline |-> kline]

OrderFrame ==
    UNCHANGED <<cfgVars, VOLUME_PERIOD, limit, tickers, i, baseIdx, csvRows, csvFile, htmlFile,
                exitCode, reqs, btnDisabled, handler, alerted, pctVars, queue, running, answers,
                fetchVars, lastKline, inFlight,
                   promises, cacheVars>>

\* The start of generateData up to the first Promise.all.
OrderStart ==
    /\ variant = "order" /\ pc = "o_start"
    /\ symbols' = OrderSymbols
    /\ syms' = firstColumn(slice(OrderSymbols, 0, TOP_N))
    /\ IF VOLUME_PERIOD # "24h"
       THEN LET subset == slice(OrderSymbols, 0, Max(ROLLING_SUBSET, TOP_N))
            IN  /\ results' = [k \in 1..Len(subset) |-> PendingScore]
                /\ tasks' = [k \in 1..Len(subset) |-> "running"]
                /\ pc' = "o_rolling"
       ELSE /\ pc' = "o_ranked"
            /\ UNCHANGED <<results, tasks>>
    /\ UNCHANGED <<traces, endVals, selected, failed, page, rendered, klResults>>
    /\ OrderFrame

\* One task of limitRun settles: [sym, sum], or null when the fetch threw.
OrderDailySettle ==
    /\ variant = "order" /\ pc = "o_rolling"
    /\ \E k \in DOMAIN tasks :
          /\ tasks[k] = "running"
          /\ tasks' = [tasks EXCEPT ![k] = "resolved"]
          /\ LET sym == symbols[k][1]
                 lost == IF answers.daily[sym] THEN {} ELSE {sym}
                 score == rollingResults(market, <<symbols[k]>>, lost, daysOf(VOLUME_PERIOD))[1]
             IN  results' = settleSlot(results, k, score, PendingScore)
    /\ UNCHANGED <<pc, syms, symbols, traces, endVals, selected, failed, page, rendered, klResults>>
    /\ OrderFrame

\* await Promise.all(promises) returns: the rolling ranking.
OrderRank ==
    /\ variant = "order" /\ pc = "o_rolling"
    /\ \A k \in DOMAIN tasks : tasks[k] = "resolved"
    /\ syms' \in rollingRank(results, TOP_N)
    /\ pc' = "o_ranked"
    /\ UNCHANGED <<symbols, results, tasks, traces, endVals, selected, failed, page, rendered,
                   klResults>>
    /\ OrderFrame

\* const klTasks = syms.map(symbol => limitRun2(...))
OrderStartKlines ==
    /\ variant = "order" /\ pc = "o_ranked"
    /\ klResults' = [k \in 1..Len(syms) |-> PendingResult]
    /\ tasks' = [k \in 1..Len(syms) |-> "running"]
    /\ pc' = "o_klines"
    /\ UNCHANGED <<syms, symbols, results, traces, endVals, selected, failed, page, rendered>>
    /\ OrderFrame

\* One task of limitRun2 settles.
OrderKlineSettle ==
    /\ variant = "order" /\ pc = "o_klines"
    /\ \E k \in DOMAIN tasks :
          /\ tasks[k] = "running"
          /\ tasks' = [tasks EXCEPT ![k] = "resolved"]
          /\ klResults' = settleSlot(klResults, k, klTask(syms[k], answers.kline[syms[k]]),
                                     PendingResult)
    /\ UNCHANGED <<pc, syms, symbols, results, traces, endVals, selected, failed, page, rendered>>
    /\ OrderFrame

\* await Promise.all(klTasks) returns: the rest of generateData and the render.
OrderRender ==
    /\ variant = "order" /\ pc = "o_klines"
    /\ \A k \in DOMAIN tasks : tasks[k] = "resolved"
    /\ traces' = tracesOf(klResults)
    /\ \E sorted \in sortedByLastY(endValsOf(klResults)) :
          /\ endVals' = sorted
          /\ selected' = selectExtremes(sorted)
          /\ page' = [traces |-> tracesOf(klResults),
                      annotations |-> annotationsOf(selectExtremes(sorted)),
                      returns |-> returnsOf(sorted)]
    /\ rendered' = rendered + 1
    /\ pc' = "done"
    /\ UNCHANGED <<syms, symbols, results, tasks, failed, klResults>>
    /\ OrderFrame

NextOrder ==
    \/ OrderStart
    \/ OrderDailySettle
    \/ OrderRank
    \/ OrderStartKlines
    \/ OrderKlineSettle
    \/ OrderRender
SpecOrder == InitOrder /\ [][NextOrder]_vars

----------------------------------------------------------------------------
(* The page's binanceGet and fetchJson: one call, every outcome of every fetch *)

FETCH_RETRIES == 3
FETCH_BACKOFF == 350
\* What one fetch(url) can do: answer JSON, reject (network), answer a status that is not
\* ok, or answer a body that res.json() rejects.
FetchFailures == {"network", "http", "json"}
FetchOutcomes == {"ok"} \cup FetchFailures

\* sleep(backoff * Math.pow(2, i))
sleepMs_Linear(backoff, n) == backoff * (n + 1)
sleepMs(backoff, n) == backoff * 2^n

InitFetch ==
    /\ variant = "fetch" /\ pc = "f_fetch"
    /\ IdleCfg /\ IdleRun /\ IdlePage /\ IdlePure /\ IdleExtra

FetchFrame == UNCHANGED <<cfgVars, VOLUME_PERIOD, runVars, pageVars, pctVars, limVars,
                          orderVars, lastKline, inFlight,
                   promises, cacheVars>>

\* One pass of fetchJson's loop body up to the catch clause's decision; a throw out of
\* fetchJson lands in binanceGet's catch, which moves on to the next base or rethrows.
FetchAttempt ==
    /\ variant = "fetch" /\ pc = "f_fetch"
    /\ \E outcome \in FetchOutcomes :
          /\ fetchLog' = Append(fetchLog, [ev |-> "fetch", base |-> baseIdx, n |-> attempt,
                                           outcome |-> outcome, ms |-> 0])
          /\ IF outcome = "ok"
                THEN /\ fetchResult' = [kind |-> "data", base |-> baseIdx]
                     /\ pc' = "f_done"
                     /\ UNCHANGED <<attempt, baseIdx>>
                ELSE IF attempt # FETCH_RETRIES
                THEN /\ pc' = "f_sleep"
                     /\ UNCHANGED <<attempt, baseIdx, fetchResult>>
                ELSE IF baseIdx < NumBases
                THEN /\ baseIdx' = baseIdx + 1
                     /\ attempt' = 0
                     /\ pc' = "f_fetch"
                     /\ UNCHANGED fetchResult
                ELSE /\ fetchResult' = [kind |-> "error", base |-> baseIdx, err |-> outcome]
                     /\ pc' = "f_done"
                     /\ UNCHANGED <<attempt, baseIdx>>
    /\ FetchFrame

\* await sleep(...) and the loop's i++.
FetchSleep ==
    /\ variant = "fetch" /\ pc = "f_sleep"
    /\ fetchLog' = Append(fetchLog, [ev |-> "sleep", base |-> baseIdx, n |-> attempt,
                                     outcome |-> "slept",
                                     ms |-> sleepMs(FETCH_BACKOFF, attempt)])
    /\ attempt' = attempt + 1
    /\ pc' = "f_fetch"
    /\ UNCHANGED <<baseIdx, fetchResult>>
    /\ FetchFrame

NextFetch ==
    \/ FetchAttempt
    \/ FetchSleep
SpecFetch == InitFetch /\ [][NextFetch]_vars

----------------------------------------------------------------------------
(* computeLimit on its own, in the build and in the page *)

InitLimit ==
    /\ variant = "limit" /\ pc = "call"
    /\ INTERVAL \in DOMAIN MINUTES /\ hours \in 1..MaxHours
    /\ TOP_N = 1 /\ VOLUME_PERIOD = "24h" /\ TZ = "America/Chicago"
    /\ market = CHOOSE m \in Markets : TRUE
    /\ IdleRun /\ IdlePage /\ IdlePure /\ IdleExtra

LimitFrame ==
    UNCHANGED <<cfgVars, VOLUME_PERIOD, tickers, syms, i, baseIdx, traces, endVals, csvRows,
                failed, selected, csvFile, htmlFile, exitCode, reqs, pageVars, pctVars,
                limVars, extraVars>>

\* const limit = computeLimit(HOURS, INTERVAL) in main.
ApplyLimitServer ==
    /\ variant = "limit" /\ pc = "call"
    /\ ~computeLimit(hours, INTERVAL).threw
    /\ limit' = computeLimit(hours, INTERVAL).value
    /\ pc' = "server"
    /\ LimitFrame

\* const limit = computeLimit(CONFIG.HOURS, CONFIG.INTERVAL) in generateData.
ApplyLimitBrowser ==
    /\ variant = "limit" /\ pc = "call"
    /\ limit' = computeLimitBrowser(hours, INTERVAL)
    /\ pc' = "browser"
    /\ LimitFrame

NextLimit ==
    \/ ApplyLimitServer
    \/ ApplyLimitBrowser
SpecLimit == InitLimit /\ [][NextLimit]_vars

----------------------------------------------------------------------------
(* The page's cache in localStorage: getCache, setCache and their two callers *)

KLINES_TTL == 60 * 1000
SUMS_TTL == 10 * 60 * 1000
ttlOf(kind) == IF kind = "klines" THEN KLINES_TTL ELSE SUMS_TTL

\* String(n) of a whole number n >= 0, as '...' + n gives it.
DecimalDigits == <<"0", "1", "2", "3", "4", "5", "6", "7", "8", "9">>
RECURSIVE numberText(_)
numberText(n) ==
    IF n < 10 THEN <<DecimalDigits[n + 1]>>
    ELSE numberText(n \div 10) \o <<DecimalDigits[(n % 10) + 1]>>

\* 'klines:' + symbol + ':' + interval + ':' + limit and 'sumDaily:' + symbol + ':' + days
cacheKey_SymbolOnly(kind, req) ==
    IF kind = "klines"
    THEN <<"k", "l", "i", "n", "e", "s", ":">> \o req.symbol
    ELSE <<"s", "u", "m", "D", "a", "i", "l", "y", ":">> \o req.symbol
cacheKey(kind, req) ==
    IF kind = "klines"
    THEN <<"k", "l", "i", "n", "e", "s", ":">> \o req.symbol \o <<":">> \o req.interval
            \o <<":">> \o numberText(req.n)
    ELSE <<"s", "u", "m", "D", "a", "i", "l", "y", ":">> \o req.symbol \o <<":">>
            \o numberText(req.n)

\* The calls the model makes: klines of two symbols and two limits, sums of two symbols
\* and two windows.  n is the limit or the number of days.
CacheRequests(kind) ==
    IF kind = "klines"
    THEN {[symbol |-> BTCUSDT, interval |-> <<"5", "m">>, n |-> 288],
          [symbol |-> ETHUSDT, interval |-> <<"5", "m">>, n |-> 288],
          [symbol |-> BTCUSDT, interval |-> <<"5", "m">>, n |-> 1000]}
    ELSE {[symbol |-> BTCUSDT, interval |-> <<"1", "d">>, n |-> 7],
          [symbol |-> ETHUSDT, interval |-> <<"1", "d">>, n |-> 7],
          [symbol |-> BTCUSDT, interval |-> <<"1", "d">>, n |-> 30]}
CacheKeys(kind) == {cacheKey(kind, r) : r \in CacheRequests(kind)}
NoRequest == [symbol |-> <<>>, interval |-> <<>>, n |-> 0]

\* What localStorage holds under a key: nothing, a text that JSON.parse rejects or whose
\* ts is not a number, or {ts, value} as setCache wrote it.
Missing == [state |-> "missing", ts |-> 0, value |-> [null |-> TRUE]]
Unreadable == [state |-> "unreadable", ts |-> 0, value |-> [null |-> TRUE]]
Null == [null |-> TRUE]
\* The exchange's answer to request req at time t (for sums: the sum computed from it).
answerTo(req, t) == [null |-> FALSE, req |-> req, at |-> t]

getCache(store, key, ttlMs, t) ==
    LET obj == store[key]
    IN  IF obj.state # "stored" THEN Null
        ELSE IF t - obj.ts > ttlMs THEN Null
        ELSE obj.value
setCache(store, key, value, t) ==
    [store EXCEPT ![key] = [state |-> "stored", ts |-> t, value |-> value]]

\* The clock moves in steps of half a TTL.
tickOf(kind) == ttlOf(kind) \div 2

InitCache ==
    /\ variant = "cache" /\ pc = "c_idle"
    /\ IdleCfg /\ IdleRun /\ IdlePage /\ IdlePure
    /\ answers = <<>> /\ klResults = <<>> /\ IdleFetch /\ lastKline = NoKline
    /\ inFlight = 0 /\ promises = <<>>
    /\ now = 0
    /\ \E kind \in {"klines", "sums"} :
          /\ cache \in [CacheKeys(kind) -> {Missing, Unreadable}]
          /\ cacheOut = [kind |-> kind, source |-> "none", req |-> NoRequest, at |-> 0,
                         value |-> Null, net |-> "none", stored |-> FALSE]

CacheFrame ==
    UNCHANGED <<cfgVars, VOLUME_PERIOD, runVars, baseIdx, pageVars, pctVars, limVars,
                orderVars, fetchVars, lastKline, inFlight, promises>>

\* Time passes, between calls or while a fetch is awaited.
CacheTick ==
    /\ variant = "cache"
    /\ now < MaxTicks * tickOf(cacheOut.kind)
    /\ now' = now + tickOf(cacheOut.kind)
    /\ UNCHANGED <<pc, cache, cacheOut>>
    /\ CacheFrame

\* getKlinesCached / sumDailyQuoteVolume up to the cache decision: `if (cached)` for
\* klines, `if (cached != null)` for sums.
CacheLookup ==
    /\ variant = "cache" /\ pc = "c_idle"
    /\ \E req \in CacheRequests(cacheOut.kind) :
          LET cached == getCache(cache, cacheKey(cacheOut.kind, req), ttlOf(cacheOut.kind), now)
          IN  IF cached # Null
              THEN /\ cacheOut' = [cacheOut EXCEPT !.source = "cache", !.req = req, !.at = now,
                                                   !.value = cached, !.net = "none",
                                                   !.stored = FALSE]
                   /\ pc' = "c_idle"
              ELSE /\ cacheOut' = [cacheOut EXCEPT !.source = "pending", !.req = req,
                                                   !.at = now, !.value = Null, !.net = "none",
                                                   !.stored = FALSE]
                   /\ pc' = "c_fetch"
    /\ UNCHANGED <<cache, now>>
    /\ CacheFrame

\* await binanceGet(...) returns or throws; after a return, setCache, whose setItem may
\* throw (quota, storage disabled) without effect on the caller.
CacheFetchDone ==
    /\ variant = "cache" /\ pc = "c_fetch"
    /\ \E netOk \in BOOLEAN, stored \in BOOLEAN :
          IF ~netOk
          THEN /\ ~stored
               /\ cacheOut' = [cacheOut EXCEPT !.source = "error", !.net = "failed"]
               /\ UNCHANGED cache
          ELSE LET data == answerTo(cacheOut.req, now)
               IN  /\ cache' = IF stored
                                THEN setCache(cache, cacheKey(cacheOut.kind, cacheOut.req), data, now)
                                ELSE cache
                   /\ cacheOut' = [cacheOut EXCEPT !.source = "network", !.value = data,
                                                   !.net = "ok", !.stored = stored]
    /\ pc' = "c_idle"
    /\ UNCHANGED now
    /\ CacheFrame

NextCache ==
    \/ CacheTick
    \/ CacheLookup
    \/ CacheFetchDone
SpecCache == InitCache /\ [][NextCache]_vars

----------------------------------------------------------------------------
(* Properties *)

\* a > b and a >= b of JS numbers: false when either is NaN.
Greater(a, b) == isFinite(a) /\ isFinite(b) /\ Sign(Sub(a, b)) > 0
AtLeast(a, b) == isFinite(a) /\ isFinite(b) /\ Sign(Sub(a, b)) >= 0

NoRepeats(s) == \A a, b \in 1..Len(s) : a # b => s[a] # s[b]

\* The filter in the specification's words.
LeveragedTokens ==
    { <<"U", "P">>, <<"D", "O", "W", "N">>, <<"3", "L">>, <<"3", "S">>, <<"5", "L">>,
      <<"5", "S">>, <<"B", "U", "L", "L">>, <<"B", "E", "A", "R">> }
HasSubstring(s, w) ==
    \E a \in 1..Len(s) : a + Len(w) - 1 <= Len(s) /\ SubSeq(s, a, a + Len(w) - 1) = w
PassesFilter(sym) ==
    /\ Len(sym) >= 4
    /\ SubSeq(sym, Len(sym) - 3, Len(sym)) = <<"U", "S", "D", "T">>
    /\ SubSeq(sym, 1, Len(sym) - 4) \notin STABLES
    /\ \A w \in LeveragedTokens : ~HasSubstring(sym, w)

\* C1: every symbol that passed the filter -- the rows the browser keeps in
\* `symbols`, and every symbol either ranker returned -- ends with USDT, has a
\* base outside the stablecoin set and contains no leveraged-token substring.
C1_FilteredSymbols ==
    /\ \A r \in DOMAIN syms : PassesFilter(syms[r])
    /\ \A r \in DOMAIN symbols : PassesFilter(symbols[r][1])

\* The ranker has run on a ticker list that holds a stable pair, a leveraged
\* token and a traded pair, and has returned the traded pair.
C1_Witness ==
    /\ pc \in {"ranked", "b_ranked"}
    /\ \E a, b \in DOMAIN tickers :
          tickers[a].symbol = USDCUSDT /\ tickers[b].symbol = BTCUPUSDT
    /\ Len(syms) = 1

\* The candidates of the ticker list held in `tickers`, and their 24h volumes.
Candidates == {tickers[r].symbol : r \in {q \in DOMAIN tickers : PassesFilter(tickers[q].symbol)}}
Volume24h(sym) ==
    LET r == CHOOSE q \in DOMAIN tickers : tickers[q].symbol = sym
    IN  parseFloat(OrZero(tickers[r].quoteVolume))
DirectModeRanked ==
    \/ variant = "server" /\ pc = "ranked" /\ VOLUME_PERIOD = "24h"
    \/ variant = "browser" /\ pc = "b_ranked" /\ VOLUME_PERIOD = "24h"

\* C2: in direct (24h) mode the ranker returns the first N of the candidates in
\* descending order of 24h quote volume: at most N symbols, all of them
\* candidates, and no candidate left out has a strictly larger volume than a
\* selected one.
C2_DirectRanking ==
    DirectModeRanked =>
        /\ Len(syms) <= TOP_N
        /\ Len(syms) = Min(TOP_N, Cardinality(Candidates))
        /\ NoRepeats(syms)
        /\ Range(syms) \subseteq Candidates
        /\ \A a, b \in DOMAIN syms : a < b => ~Greater(Volume24h(syms[b]), Volume24h(syms[a]))
        /\ \A c \in Candidates \ Range(syms) :
              \A r \in DOMAIN syms : ~Greater(Volume24h(c), Volume24h(syms[r]))

\* The part of C2 the rankers meet: it holds whenever no ticker carries a
\* non-numeric volume text.
C2_NumericVolumes ==
    (\A r \in DOMAIN tickers : isFinite(parseFloat(OrZero(tickers[r].quoteVolume))))
        => C2_DirectRanking

\* The sum of a symbol's daily quote volumes over the window.
WindowSum(sym) == sumDailyQuoteVolume(market, sym, daysOf(VOLUME_PERIOD))
IsRollingTop(out, pool) ==
    /\ Len(out) <= TOP_N
    /\ Len(out) = Min(TOP_N, Cardinality(pool))
    /\ NoRepeats(out)
    /\ Range(out) \subseteq pool
    /\ \A a, b \in DOMAIN out : a < b => AtLeast(WindowSum(out[a]), WindowSum(out[b]))
    /\ \A c \in pool \ Range(out) :
          \A r \in DOMAIN out : AtLeast(WindowSum(out[r]), WindowSum(c))

\* C3: with the ranking window set to 7d or 30d the selected symbols are the
\* first N, by descending sum of daily quote volume over the window, of the
\* candidates whose daily candles were fetched; the build fetches them for every
\* candidate (none is reported as failed), the page leaves out those whose
\* fetch failed.
C3_RollingRanking ==
    VOLUME_PERIOD \in {"7d", "30d"} =>
        /\ (variant = "server" /\ pc = "ranked") => IsRollingTop(syms, Candidates)
        /\ (variant = "browser" /\ pc = "b_ranked") =>
              /\ Range(syms) \subseteq Candidates
              /\ IsRollingTop(syms, {results[r].sym : r \in {q \in DOMAIN results : ~results[q].null}})

\* The page's half of C3, which the page's script meets.
C3_BrowserRolling ==
    (variant = "browser" /\ pc = "b_ranked" /\ VOLUME_PERIOD \in {"7d", "30d"}) =>
        /\ Range(syms) \subseteq Candidates
        /\ IsRollingTop(syms, {results[r].sym : r \in {q \in DOMAIN results : ~results[q].null}})

\* C4: toPercentSeries.  For rows whose first close is finite and non-zero the
\* result has the rows' length and timestamps and its r-th value is
\* close_r / close_1 - 1, so the first value is 0 and closes 100, 110, 90 give
\* 0, 1/10, -1/10; for no rows, or a first close that is 0 or not finite, the
\* result is empty.
C4_PercentSeries ==
    (variant = "pct" /\ pc = "done") =>
        IF Len(pctIn) = 0 \/ ~isFinite(pctIn[1].c) \/ pctIn[1].c = Num(0)
        THEN pctOut = <<>>
        ELSE /\ Len(pctOut) = Len(pctIn)
             /\ \A r \in DOMAIN pctIn :
                   /\ pctOut[r].t = pctIn[r].t
                   /\ IF isFinite(pctIn[r].c)
                      THEN /\ isFinite(pctOut[r].y)
                           \* y = c_r / c_1 - 1, cross-multiplied (closes here are integers)
                           /\ pctOut[r].y.n * pctIn[1].c.n
                                 = (pctIn[r].c.n - pctIn[1].c.n) * pctOut[r].y.d
                      ELSE ~isFinite(pctOut[r].y)
             /\ pctOut[1].y = Num(0)
             /\ ([r \in DOMAIN pctIn |-> pctIn[r].c] = <<Num(100), Num(110), Num(90)>>
                    => [r \in DOMAIN pctOut |-> pctOut[r].y] = <<Num(0), Rat(1, 10), Rat(-1, 10)>>)

\* toPercentSeries has returned the series of the closes 100, 110, 90.
C4_Witness ==
    /\ variant = "pct" /\ pc = "done"
    /\ [r \in DOMAIN pctIn |-> pctIn[r].c] = <<Num(100), Num(110), Num(90)>>
    /\ Len(pctOut) = 3 /\ pctOut[2].y = Rat(1, 10)

\* What is shown or written downstream carries nothing of symbol s: no trace,
\* no extremes entry, no annotation, no returns row, and only blank CSV cells.
NoTraceOf(s, trs) == \A r \in DOMAIN trs : trs[r].name # labelOf(s)
NoEntryOf(s, rows) == \A r \in DOMAIN rows : rows[r].label # labelOf(s)
BlankCsvColumn(s) ==
    /\ \A k \in DOMAIN csvRows : \A c \in DOMAIN syms : syms[c] = s => csvRows[k][c].blank
    /\ \A r \in DOMAIN csvFile.lines :
          \A c \in DOMAIN syms : syms[c] = s => csvFile.lines[r].cells[c].blank
LeftOutOfCharts(s) ==
    /\ NoTraceOf(s, traces) /\ NoEntryOf(s, endVals) /\ NoEntryOf(s, selected)
    /\ NoTraceOf(s, htmlFile.traces) /\ NoEntryOf(s, htmlFile.annotations)
    /\ NoEntryOf(s, htmlFile.returns)
    /\ (variant = "browser" /\ rendered > 0) =>
          /\ NoTraceOf(s, page.traces) /\ NoEntryOf(s, page.annotations)
          /\ NoEntryOf(s, page.returns)
\* A kline fetch error does not end the run: the build does not exit with
\* failure once it has asked for klines, and when it writes its artifacts it has
\* asked for the klines of every selected symbol; the page's refresh renders.
KlineErrorNotFatal ==
    /\ (variant = "server" /\ reqs.kline # {}) => (pc # "exited" /\ exitCode # 1)
    /\ (variant = "server" /\ pc \in {"csv", "done"}) =>
          (reqs.kline = Range(syms) /\ csvFile.written)
    /\ (variant = "server" /\ pc = "done") => (htmlFile.written /\ exitCode = 0)
    /\ (variant = "browser" /\ failed # {}) => (rendered > 0 /\ ~alerted)

\* C5 as stated: a kline fetch error for one selected symbol never aborts the
\* run, and the failed symbol is excluded from the traces, the annotations, the
\* returns table and the CSV output.
C5_FailedSymbolExcludedEverywhere ==
    /\ KlineErrorNotFatal
    /\ \A s \in failed :
          /\ LeftOutOfCharts(s)
          /\ BlankCsvColumn(s)
          /\ csvFile.written => s \notin Range(csvFile.header)

\* C5, amended: a kline fetch error for one selected symbol never aborts the
\* run; the failed symbol has no trace, no annotation, no returns row and no CSV
\* value, but its column stays in the CSV header, with every cell blank.
C5_FailedSymbolLeftOut ==
    /\ KlineErrorNotFatal
    /\ \A s \in failed :
          /\ LeftOutOfCharts(s)
          /\ BlankCsvColumn(s)
          /\ csvFile.written => s \in Range(csvFile.header)

\* The build is through: the first selected symbol's fetch failed, the second
\* one's series was charted and written to the CSV.
C5_Witness ==
    /\ variant = "server" /\ pc = "done"
    /\ Len(syms) = 2 /\ failed = {syms[1]}
    /\ Len(htmlFile.traces) = 1 /\ htmlFile.traces[1].name = labelOf(syms[2])
    /\ Len(csvFile.lines) = 2

\* C6: with an unsupported interval string the build aborts at once: it asks
\* for no tickers and no klines, writes no CSV and no HTML, and exits with
\* failure.
C6_UnsupportedIntervalAborts ==
    (variant = "server" /\ INTERVAL \notin {"1m", "3m", "5m", "15m"}) =>
        /\ ~reqs.ticker /\ reqs.kline = {}
        /\ ~csvFile.written /\ ~htmlFile.written
        /\ pc \in {"start", "exited"}
        /\ pc = "exited" => exitCode = 1

\* C7: when the ticker fetch fails the run aborts.  The build leaves the fetch
\* only with the tickers or by exiting with failure, and an exited build has
\* asked for no klines and written no CSV and no HTML; a refresh that leaves the
\* fetch without tickers leaves the traces, annotations and table rows as they
\* were and asks for no klines.
C7_TickerFailureAborts ==
    [][ /\ (variant = "server" /\ pc = "tickers" /\ pc' # "tickers") =>
              \/ pc' = "ranked"
              \/ pc' = "exited" /\ exitCode' = 1
        /\ (variant = "server" /\ pc' = "exited") =>
              /\ exitCode' = 1
              /\ reqs'.kline = {} /\ ~csvFile'.written /\ ~htmlFile'.written
        /\ (variant = "browser" /\ pc = "b_tickers" /\ pc' \notin {"b_tickers", "b_rolling", "b_ranked"}) =>
              /\ pc' = "idle" /\ page' = page /\ rendered' = rendered
              /\ reqs'.kline = {} /\ reqs'.daily = {}
      ]_vars

\* The build has exited after the ticker fetch failed at every base.
C7_Witness ==
    /\ variant = "server" /\ pc = "exited"
    /\ reqs.ticker /\ baseIdx = NumBases /\ exitCode = 1

\* The page's refresh failed at the ticker fetch and the chart is still there.
C7_WitnessBrowser ==
    /\ variant = "browser" /\ pc = "idle"
    /\ reqs.ticker /\ rendered = 0 /\ alerted
    /\ page.traces # <<>>

\* C8: with at least 10 series, sorted descending by final return, the top set
\* is the first 5 and the bottom set the last 5 of the sorted list; the two are
\* disjoint, have 5 members each, and every top member's final return is at
\* least every bottom member's.
C8_ExtremesOfTenOrMore ==
    (variant = "extremes" /\ pc = "done" /\ Len(endVals) >= 10) =>
        LET n == Len(endVals)
            top == {selected[r] : r \in 1..5}
            bottom == {selected[r] : r \in 6..Len(selected)}
        IN  /\ \A a, b \in 1..n : a < b => AtLeast(endVals[a].lastY, endVals[b].lastY)
            /\ Len(selected) = 10
            /\ SubSeq(selected, 1, 5) = SubSeq(endVals, 1, 5)
            /\ SubSeq(selected, 6, 10) = SubSeq(endVals, n - 4, n)
            /\ top \cap bottom = {}
            /\ Cardinality(top) = 5 /\ Cardinality(bottom) = 5
            /\ \A t \in top, b \in bottom : AtLeast(t.lastY, b.lastY)

\* Twelve series, not all of the same final return, have been sorted and cut.
C8_Witness ==
    /\ variant = "extremes" /\ pc = "done"
    /\ Len(endVals) = 12 /\ Len(selected) = 10
    /\ endVals[1].lastY # endVals[12].lastY

\* C9: with fewer than 10 series no series appears more than once among the
\* selected extremes, and so none is annotated twice.
C9_NoDuplicateExtremes ==
    Len(endVals) < 10 =>
        /\ NoRepeats(selected)
        /\ NoRepeats(htmlFile.annotations)

\* C10: at every moment at most 8 of the tasks given to the limiter are running.
C10_AtMostEightRunning ==
    /\ Cardinality({t \in DOMAIN tasks : tasks[t] = "running"}) <= 8
    /\ running = Cardinality({t \in DOMAIN tasks : tasks[t] = "running"})

\* Eight tasks run and one waits in the queue, after another was rejected.
C10_Witness ==
    /\ variant = "limiter"
    /\ Cardinality({t \in DOMAIN tasks : tasks[t] = "running"}) = 8
    /\ Len(queue) > 0
    /\ \E a \in DOMAIN tasks : tasks[a] = "rejected"

\* What one refresh puts out when every task's value sits at its own index.
OrderScores ==
    LET subset == slice(OrderSymbols, 0, Max(ROLLING_SUBSET, TOP_N))
    IN  [k \in 1..Len(subset) |->
            IF answers.daily[subset[k][1]]
            THEN [null |-> FALSE, sym |-> subset[k][1], sum |-> WindowSum(subset[k][1])]
            ELSE NullScore]
OrderRankings ==
    IF VOLUME_PERIOD = "24h"
    THEN {firstColumn(slice(OrderSymbols, 0, TOP_N))}
    ELSE rollingRank(OrderScores, TOP_N)
OrderPages(ss) ==
    LET inOrder == [k \in 1..Len(ss) |-> klTask(ss[k], answers.kline[ss[k]])]
    IN  {[traces |-> tracesOf(inOrder),
          annotations |-> annotationsOf(selectExtremes(sorted)),
          returns |-> returnsOf(sorted)] : sorted \in sortedByLastY(endValsOf(inOrder))}

\* C11: for fixed per-symbol fetch answers one refresh has one possible output,
\* whatever the order in which the fetches complete: the ranked symbols, the
\* traces in the symbols' order, the extremes annotations and the sorted returns
\* table are those of the answers taken in submission order.
C11_OutputIndependentOfCompletionOrder ==
    (variant = "order" /\ pc = "done") =>
        /\ OrderRankings = {syms}
        /\ OrderPages(syms) = {page}

\* A refresh has rendered three traces whose tasks could settle in any order,
\* after a rolling ranking that reordered the candidates.
C11_Witness ==
    /\ variant = "order" /\ pc = "done"
    /\ VOLUME_PERIOD = "30d"
    /\ syms # firstColumn(slice(OrderSymbols, 0, TOP_N))
    /\ Len(page.traces) = Len(OrderSymbols)
    /\ page.returns[1].label # page.traces[1].name


\* The fetches of one base URL in the log, and the failed ones among them.
FetchesOf(b) == {k \in 1..Len(fetchLog) : fetchLog[k].ev = "fetch" /\ fetchLog[k].base = b}
FailedFetch(k) == fetchLog[k].ev = "fetch" /\ fetchLog[k].outcome \in FetchFailures
\* The waits the specification gives: 350, 700 and 1400 ms after failures 1, 2 and 3.
SpecWaits == <<350, 700, 1400>>

\* C12: a browser request makes at most retries + 1 = 4 attempts per base URL; after the
\* i-th failed attempt (i = 0, 1, 2) it waits 350, 700, 1400 ms and tries again, it does
\* not wait after the last attempt, it stops at the first success, and binanceGet throws
\* only when every base was tried in order and all its attempts failed.
C12_RetryWithBackoff ==
    variant = "fetch" =>
      /\ \A b \in 1..NumBases : Cardinality(FetchesOf(b)) <= 4
      /\ \A k \in 1..Len(fetchLog) :
            /\ (FailedFetch(k) /\ fetchLog[k].n < 3) =>
                  IF k = Len(fetchLog)
                    THEN pc = "f_sleep"
                    ELSE /\ fetchLog[k + 1].ev = "sleep"
                         /\ fetchLog[k + 1].ms = SpecWaits[fetchLog[k].n + 1]
            /\ (FailedFetch(k) /\ fetchLog[k].n = 3 /\ k < Len(fetchLog)) =>
                  /\ fetchLog[k + 1].ev = "fetch"
                  /\ fetchLog[k + 1].base = fetchLog[k].base + 1
                  /\ fetchLog[k + 1].n = 0
            /\ fetchLog[k].ev = "sleep" =>
                  /\ k > 1 /\ FailedFetch(k - 1) /\ fetchLog[k - 1].n < 3
                  /\ (k < Len(fetchLog) =>
                        /\ fetchLog[k + 1].ev = "fetch"
                        /\ fetchLog[k + 1].base = fetchLog[k].base
                        /\ fetchLog[k + 1].n = fetchLog[k].n + 1)
            /\ (fetchLog[k].ev = "fetch" /\ fetchLog[k].outcome = "ok") =>
                  /\ k = Len(fetchLog) /\ pc = "f_done"
                  /\ fetchResult = [kind |-> "data", base |-> fetchLog[k].base]
      /\ (Len(fetchLog) > 0 => fetchLog[1] \in [ev : {"fetch"}, base : {1}, n : {0},
                                                 outcome : FetchOutcomes, ms : {0}])
      /\ fetchResult.kind = "error" =>
            /\ pc = "f_done"
            /\ \A b \in 1..NumBases :
                  /\ Cardinality(FetchesOf(b)) = 4
                  /\ \A k \in FetchesOf(b) : FailedFetch(k)
            /\ fetchResult.err = fetchLog[Len(fetchLog)].outcome
      /\ (pc = "f_done" /\ fetchResult.kind # "error") =>
            /\ Len(fetchLog) > 0
            /\ fetchLog[Len(fetchLog)].outcome = "ok"

\* Both outcomes after retries: a request that fails on every attempt at every base, and
\* on the way there a success would have ended it.
C12_Witness ==
    /\ variant = "fetch" /\ pc = "f_done"
    /\ fetchResult.kind = "error"
    /\ Len(fetchLog) = NumBases * 7
    /\ \E k \in 1..Len(fetchLog) : fetchLog[k].ev = "sleep" /\ fetchLog[k].ms = 1400

\* main is through with the symbol of lastKline: binanceGet returned or threw for good.
KlineSettled ==
    variant = "server" /\ pc \in {"klines", "csv", "done"} /\ lastKline.tries # <<>> /\ baseIdx = 1
LastTry == lastKline.tries[Len(lastKline.tries)]

EmptySeries(data) == toPercentSeries(klineRows(data)) = <<>>
HasPoints(trs) ==
    \A r \in DOMAIN trs : Len(trs[r].x) >= 1 /\ Len(trs[r].y) = Len(trs[r].x)
\* Every end-value entry is the last point of a trace.
EndOfTrace(rows, trs) ==
    \A e \in DOMAIN rows :
        \E r \in DOMAIN trs :
            /\ trs[r].name = rows[e].label /\ Len(trs[r].y) >= 1
            /\ rows[e].lastY = trs[r].y[Len(trs[r].y)]
            /\ rows[e].lastX = trs[r].x[Len(trs[r].x)]
LabelOfTrace(rows, trs) ==
    \A e \in DOMAIN rows : \E r \in DOMAIN trs : trs[r].name = rows[e].label

TimestampsOf(trs) == UNION {Range(trs[r].x) : r \in DOMAIN trs}
PointsAt(c, t) ==
    {<<r, k>> \in (DOMAIN traces) \X (1..MaxCandles) :
        /\ traces[r].name = labelOf(syms[c])
        /\ k \in DOMAIN traces[r].x /\ traces[r].x[k] = t}
CsvAsSpecified ==
    LET ts == sortedKeys(TimestampsOf(traces))
    IN  /\ csvFile.header = <<TimeColumn>> \o syms
        /\ Len(csvFile.lines) = Len(ts)
        /\ \A r \in 1..(Len(ts) - 1) : csvFile.lines[r].time < csvFile.lines[r + 1].time
        /\ \A r \in 1..Len(ts) :
              /\ csvFile.lines[r].time = formatLocal(ts[r], TZ)
              /\ Len(csvFile.lines[r].cells) = Len(syms)
              /\ \A c \in DOMAIN syms :
                    IF PointsAt(c, ts[r]) = {}
                    THEN csvFile.lines[r].cells[c].blank
                    ELSE \A p \in PointsAt(c, ts[r]) :
                            csvFile.lines[r].cells[c] =
                                [blank |-> FALSE, text |-> toFixed(traces[p[1]].y[p[2]], 6)]
\* No two timestamps of the rendered series read the same on the local clock.
LocalTimesDiffer ==
    \A t, u \in TimestampsOf(traces) : t # u => formatLocal(t, TZ) # formatLocal(u, TZ)

\* C15: the CSV file has the header ["time", ...symbols] and exactly one row per
\* distinct timestamp of the rendered series, in ascending order; every row has one
\* cell per symbol after the time, the cell of symbol s at timestamp t holds s's return
\* at t with 6 decimals, and it is blank exactly when s has no point at t.
C15_CsvOneRowPerTimestamp ==
    (variant = "server" /\ csvFile.written) => CsvAsSpecified

\* The CSV file is as C15 says whenever the local clock does not repeat within the
\* series, in particular in a zone without daylight saving.
C15_CsvWhenLocalTimesDiffer ==
    (variant = "server" /\ csvFile.written /\ LocalTimesDiffer) => CsvAsSpecified
C15_CsvInUtc ==
    (variant = "server" /\ csvFile.written /\ TZ = "UTC") =>
        (LocalTimesDiffer /\ CsvAsSpecified)
C15_FullCsvReached ==
    /\ variant = "server" /\ csvFile.written /\ LocalTimesDiffer
    /\ Len(csvFile.lines) = 2 /\ Len(syms) = 2 /\ Len(traces) = 2
    /\ \E r \in 1..2 : csvFile.lines[r].cells[1].blank

\* The interval's length in minutes, as the specification lists it.
IntervalMinutes == [x \in {"1m", "3m", "5m", "15m"} |->
                       IF x = "1m" THEN 1 ELSE IF x = "3m" THEN 3 ELSE IF x = "5m" THEN 5 ELSE 15]
\* c is the ceiling of n / d.
IsCeiling(c, n, d) == c * d >= n /\ (c - 1) * d < n

\* C16: for a supported interval and a positive whole number of hours, computeLimit
\* returns min(ceil(hours * 60 / minutes), 1000), in the build and in the page: never
\* more than 1000, and the exact ceiling whenever that is at most 1000.
C16_LimitIsCappedCeiling ==
    (variant = "limit" /\ pc \in {"server", "browser"}) =>
        /\ isFinite(limit) /\ limit.d = 1
        /\ limit.n >= 1 /\ limit.n <= 1000
        /\ \E c \in 1..(hours * 60) :
              /\ IsCeiling(c, hours * 60, IntervalMinutes[INTERVAL])
              /\ limit.n = IF c <= 1000 THEN c ELSE 1000

\* Both sides of the cap, in the build: 24 hours of 5m candles are 288, 300 hours of 15m
\* candles would be 1200.
C16_Witness ==
    /\ variant = "limit" /\ pc = "server"
    /\ \/ hours = 24 /\ INTERVAL = "5m" /\ limit = Num(288)
       \/ hours = MaxHours /\ INTERVAL = "15m" /\ limit = Num(1000)

\* The volume the specification ranks a candidate by: its 24h quote volume, 0 when the
\* ticker's text is not a number.
VolumeOrZero(sym) ==
    LET r == CHOOSE q \in DOMAIN tickers : tickers[q].symbol = sym
        text == tickers[r].quoteVolume
    IN  IF text \in {"0", "1", "2"} THEN CHOOSE n \in 0..2 : Num(n) = parseFloat(text) ELSE 0
NonNumericCandidates ==
    {c \in Candidates : ~isFinite(Volume24h(c))}

\* C17: a candidate whose quoteVolume is not a number is ranked as one with volume 0:
\* the selection is in descending order of the volumes so read, no candidate left out
\* has a larger one than a selected candidate, and so the numeric candidates keep their
\* order by volume whatever else is in the list.
C17_NonNumericVolumeIsZero ==
    DirectModeRanked =>
        /\ \A a, b \in DOMAIN syms : a < b => VolumeOrZero(syms[a]) >= VolumeOrZero(syms[b])
        /\ \A c \in Candidates \ Range(syms) :
              \A r \in DOMAIN syms : VolumeOrZero(syms[r]) >= VolumeOrZero(c)

\* Without a non-numeric volume among the candidates the ranking is by volume.
C17_AllNumeric ==
    (DirectModeRanked /\ NonNumericCandidates = {}) =>
        /\ \A a, b \in DOMAIN syms : a < b => VolumeOrZero(syms[a]) >= VolumeOrZero(syms[b])
        /\ \A c \in Candidates \ Range(syms) :
              \A r \in DOMAIN syms : VolumeOrZero(syms[r]) >= VolumeOrZero(c)

\* C18: the page never has more than one generateData run in flight; while one is in
\* flight, started on load or by a click, the Refresh button is disabled, and once it
\* has ended, with a render or with an error, the button is enabled again.
C18_OneRefreshAtATime ==
    variant = "browser" =>
        /\ inFlight <= 1
        /\ inFlight >= 1 => btnDisabled
        /\ (inFlight = 0 /\ pc # "load") => ~btnDisabled

\* A click-started refresh is in flight after the on-load refresh has failed.
C18_Witness ==
    /\ variant = "browser" /\ handler = "click" /\ inFlight = 1 /\ btnDisabled
    /\ pc = "b_klines"
\* After a failed click refresh and after a rendered one the button is enabled.
C18_EnabledAfterFailure ==
    variant = "browser" /\ pc = "idle" /\ alerted /\ ~btnDisabled /\ inFlight = 0
C18_EnabledAfterRender ==
    variant = "browser" /\ pc = "idle" /\ rendered = 1 /\ ~btnDisabled /\ inFlight = 0

Started(t) == tasks[t] \in {"running", "resolved", "rejected"}
Settled(t) == tasks[t] \in {"resolved", "rejected"}
\* The tasks started so far are the first ones submitted, and the queue holds the rest
\* in submission order.
StartedInFifoOrder ==
    /\ \A a, b \in DOMAIN tasks : (Started(b) /\ a < b) => Started(a)
    /\ \A a, b \in DOMAIN queue : a < b => queue[a] < queue[b]
    /\ \A a \in DOMAIN queue : tasks[queue[a]] = "queued"
\* The promise returned for a task settles when and as the task does, with that task's
\* own result or reason.
OwnOutcome ==
    \A t \in DOMAIN promises :
        IF Settled(t) THEN promises[t] = [kind |-> tasks[t], of |-> t]
        ELSE promises[t] = PendingPromise
AllSettled ==
    /\ pc = "await"
    /\ \A t \in DOMAIN tasks : Settled(t)

\* C19: provided every started task settles in the end, every task given to the limiter
\* is started and its promise settles with that task's own result or rejection; tasks
\* start in submission order, a rejected task gives its slot back like a resolved one,
\* and once all tasks have settled nothing is running and nothing is queued.
C19_LimiterServesEveryTask ==
    /\ [](variant = "limiter" => (StartedInFifoOrder /\ OwnOutcome))
    /\ [](AllSettled => (running = 0 /\ queue = <<>>))
    /\ <>[](AllSettled /\ running = 0 /\ queue = <<>>)

\* All tasks have settled, the first eight with a rejection.
C19_Witness ==
    /\ variant = "limiter" /\ AllSettled /\ running = 0
    /\ \A t \in 1..LIMITER_MAX : promises[t] = [kind |-> "rejected", of |-> t]
    /\ promises[NumTasks].kind = "resolved"

\* The TTLs the specification gives, in ms: 60 s for klines, 10 min for rolling sums.
SpecTtl(kind) == IF kind = "klines" THEN 60000 ELSE 600000
\* The parameters that make up a request's key.
SameRequest(a, b) == a.symbol = b.symbol /\ a.interval = b.interval /\ a.n = b.n

\* C20: a cached call returns a stored value only if that value was fetched for exactly
\* the same parameters and stored at most the TTL before the read; otherwise it goes to
\* the network, and the fetched result is returned and replaces the entry; when the
\* storage refuses the write the result is returned all the same, and the call fails
\* only when the network does.
C20_CacheReadsAreFresh ==
    variant = "cache" =>
        /\ cacheOut.source = "cache" =>
              /\ ~cacheOut.value.null
              /\ SameRequest(cacheOut.value.req, cacheOut.req)
              /\ cacheOut.value.at <= cacheOut.at
              /\ cacheOut.at - cacheOut.value.at <= SpecTtl(cacheOut.kind)
        /\ cacheOut.source = "pending" =>
              LET e == cache[cacheKey(cacheOut.kind, cacheOut.req)]
              IN  \/ e.state \in {"missing", "unreadable"}
                  \/ cacheOut.at - e.ts > SpecTtl(cacheOut.kind)
        /\ cacheOut.source = "network" =>
              /\ cacheOut.net = "ok"
              /\ cacheOut.value = answerTo(cacheOut.req, cacheOut.value.at)
              /\ cacheOut.value.at >= cacheOut.at
              /\ cacheOut.stored =>
                    cache[cacheKey(cacheOut.kind, cacheOut.req)] =
                        [state |-> "stored", ts |-> cacheOut.value.at, value |-> cacheOut.value]
        /\ cacheOut.source = "error" => cacheOut.net = "failed"

\* A read at exactly the TTL after the store is served from the cache.
C20_Witness ==
    /\ variant = "cache" /\ cacheOut.source = "cache"
    /\ cacheOut.at - cacheOut.value.at = SpecTtl(cacheOut.kind)
\* An expired entry was replaced by a fetch, and a fetch was returned although the
\* storage refused the write.
C20_ExpiredEntryReplaced ==
    /\ variant = "cache" /\ cacheOut.source = "network" /\ cacheOut.stored
    /\ cacheOut.at > SpecTtl(cacheOut.kind)
    /\ cacheOut.value.at = cacheOut.at
C20_StorageFailure ==
    /\ variant = "cache" /\ cacheOut.source = "network" /\ ~cacheOut.stored
    /\ cache[cacheKey(cacheOut.kind, cacheOut.req)].state = "unreadable"
====
